---------------------------- MODULE Spec2Model ----------------------------
(***************************************************************************)
(* A model of the reddit-content-planner allocation engine: the forum      *)
(* allocator (selectSubredditsForWeek), the persona allocator              *)
(* (selectPostAuthor, selectCommenters), the thread structure planner      *)
(* (planThreadStructure, createFallbackStructure, planCommentThread) and   *)
(* the calendar orchestrator (the create and generate-calendar-stream      *)
(* routes around generateContentForPlan), with the quality and risk        *)
(* scorers, the week helpers, the topic ledger and the list of recent      *)
(* topics of generateTopic.                                                *)
(*                                                                         *)
(* Math.random() is a nondeterministic choice.  A score jitter             *)
(* Math.random() * r is a real in [0, r); scores are kept in units of      *)
(* 1/Resolution so that a jitter just below r is a value of the model.     *)
(***************************************************************************)
EXTENDS Integers, Sequences, FiniteSets, TLC

VARIABLES
    call,         \* pure-function specifications: the function applied and its arguments
    result,       \* pure-function specifications: what the call returned
    campaign,     \* the campaign's rows: personas, subreddits, keywords, posts_per_week
    planStatus,   \* weekly_plans.status of the plan ("none" before it is inserted)
    posts,        \* planned_posts rows, in insertion order
    comments,     \* planned_comments rows, in insertion order
    topicMemory,  \* topic_memory rows of the campaign, in insertion order
    connected,    \* whether the stream's consumer is still reading
    pc,           \* where the request / generateContentForPlan stands
    run,          \* generateContentForPlan's locals
    rival         \* a second request for the same plan, served at the same time

vars == <<call, result, campaign, planStatus, posts, comments, topicMemory,
          connected, pc, run, rival>>

fnVars == <<call, result>>

runVars == <<campaign, planStatus, posts, comments, topicMemory, connected, pc, run,
             rival>>

(***************************************************************************)
(* Bounds of the model.                                                    *)
(***************************************************************************)
Resolution == 2
NumPersonas == 3
MaxExistingPosts == 2
MaxSlots == 2
MaxForumSlots == 6

\* null, as a record: it is compared with records
NULL == [null |-> TRUE]

(***************************************************************************)
(* Helpers.                                                                *)
(***************************************************************************)
Min(a, b) == IF a <= b THEN a ELSE b

Max(a, b) == IF a >= b THEN a ELSE b

Range(s) == {s[i] : i \in DOMAIN s}

\* Array.prototype.filter, for a predicate given as the set of kept elements
RECURSIVE Filter(_, _)
Filter(s, keep) ==
    IF s = <<>> THEN <<>>
    ELSE IF Head(s) \in keep THEN <<Head(s)>> \o Filter(Tail(s), keep)
         ELSE Filter(Tail(s), keep)

\* n copies of x
RECURSIVE Repeat(_, _)
Repeat(x, n) == IF n <= 0 THEN <<>> ELSE <<x>> \o Repeat(x, n - 1)

\* s without its element at index i
RemoveAt(s, i) == SubSeq(s, 1, i - 1) \o SubSeq(s, i + 1, Len(s))

\* Array.prototype.slice(0, n): a negative n counts from the end
Slice(s, n) ==
    IF n >= 0 THEN SubSeq(s, 1, Min(n, Len(s)))
    ELSE SubSeq(s, 1, Max(Len(s) + n, 0))

\* Array.prototype.map
Map(s, f(_)) == [i \in DOMAIN s |-> f(s[i])]

\* The first index at which .score is maximal: with a stable sort by descending
\* score, the element that ends up first.
FirstMaxIndex(s) ==
    CHOOSE i \in DOMAIN s :
        /\ \A j \in DOMAIN s : s[j].score <= s[i].score
        /\ \A j \in 1..(i - 1) : s[j].score < s[i].score

\* Array.prototype.sort((a, b) => b.score - a.score): stable, descending
RECURSIVE SortDesc(_)
SortDesc(s) ==
    IF s = <<>> THEN <<>>
    ELSE LET i == FirstMaxIndex(s)
         IN <<s[i]>> \o SortDesc(RemoveAt(s, i))

(***************************************************************************)
(* Personas, subreddits and the relevance rule table of persona-selector.  *)
(* A bio is kept as what the rules read from it: the subreddit names that  *)
(* occur in it and the roles one of whose keywords occurs in it.           *)
(***************************************************************************)
DEFAULT_MAX_POSTS_PER_WEEK == 2

DEFAULT_MAX_COMMENTS_PER_WEEK == 10

SubredditNames == {"powerpoint", "consulting", "entrepreneur"}

\* The roles of roleKeywords one of whose keywords contains, or is contained in,
\* a theme of subredditThemes[name].
ThemeRoles(name) ==
    CASE name = "consulting" -> {"consultant"}
      [] name = "entrepreneur" -> {"consultant", "ops"}
      [] name = "productivity" -> {"ops"}
      [] name = "marketing" -> {"sales"}
      [] OTHER -> {}

NoBio == [mentions |-> {}, roles |-> {}]

calculateRelevanceScore(persona, subreddit) ==
    IF persona.bio = NoBio THEN 0
    ELSE Min((IF subreddit.name \in persona.bio.mentions THEN 15 ELSE 0)
             + 10 * Cardinality(persona.bio.roles \cap ThemeRoles(subreddit.name)),
             30)

\* Map<persona id, {postsThisWeek, commentsThisWeek}> over the given personas;
\* a post or comment of an id that is not a key is not counted.
calculatePersonaUsage(personas, existingPosts, existingComments) ==
    [id \in {p.id : p \in Range(personas)} |->
        [postsThisWeek |->
            Cardinality({i \in DOMAIN existingPosts :
                            existingPosts[i].author_persona_id = id}),
         commentsThisWeek |->
            Cardinality({i \in DOMAIN existingComments :
                            existingComments[i].author_persona_id = id})]]

\* usage.get(id) || {postsThisWeek: 0, commentsThisWeek: 0}
UsageOf(usage, id) ==
    IF id \in DOMAIN usage THEN usage[id]
    ELSE [postsThisWeek |-> 0, commentsThisWeek |-> 0]

\* The values a jitter Math.random() * r takes in the model, in units of
\* 1/Resolution: the least, and the greatest below r.
JitterValues(r) == {0, r * Resolution - 1}

AuthorJitter == 15

AuthorPenalty == 25

\* AuthorScore with the cap compared by > instead of >=
AuthorScoreCapOffByOne(persona, subreddit, usage, jitter) ==
    IF UsageOf(usage, persona.id).postsThisWeek > DEFAULT_MAX_POSTS_PER_WEEK
    THEN -1
    ELSE Resolution * (100 - UsageOf(usage, persona.id).postsThisWeek * AuthorPenalty
                       + calculateRelevanceScore(persona, subreddit))
         + jitter[persona.id]

AuthorScore(persona, subreddit, usage, jitter) ==
    IF UsageOf(usage, persona.id).postsThisWeek >= DEFAULT_MAX_POSTS_PER_WEEK
    THEN -1
    ELSE Resolution * (100 - UsageOf(usage, persona.id).postsThisWeek * AuthorPenalty
                       + calculateRelevanceScore(persona, subreddit))
         + jitter[persona.id]

\* selectPostAuthor; jitter[id] is the Math.random() * 15 drawn for persona id.
selectPostAuthor(personas, subreddit, existingPosts, existingComments, jitter) ==
    LET activePersonas == Filter(personas, {p \in Range(personas) : p.is_active})
        operators == Filter(activePersonas,
                            {p \in Range(activePersonas) : p.is_operator})
        usage == calculatePersonaUsage(activePersonas, existingPosts, existingComments)
        scored(p) ==
            [persona |-> p,
             score |-> AuthorScore(p, subreddit, usage, jitter),
             reason |->
                IF UsageOf(usage, p.id).postsThisWeek >= DEFAULT_MAX_POSTS_PER_WEEK
                THEN "at_max_posts"
                ELSE IF calculateRelevanceScore(p, subreddit) > 10
                     THEN "topic_match" ELSE "available"]
        all == Map(activePersonas, scored)
        scoredPersonas == SortDesc(Filter(all, {s \in Range(all) : s.score >= 0}))
    IN IF activePersonas = <<>> THEN NULL
       ELSE IF operators # <<>>
            THEN [persona |-> operators[1], reason |-> "operator"]
       ELSE IF scoredPersonas = <<>> THEN NULL
       ELSE [persona |-> scoredPersonas[1].persona,
             reason |-> scoredPersonas[1].reason]

CommenterJitter == 30

CommenterPenalty == 5

\* CommenterScore without the weekly comment cap
CommenterScoreNoCap(persona, usage, jitter) ==
    Resolution * (100 - UsageOf(usage, persona.id).commentsThisWeek
                            * CommenterPenalty)
    + jitter[persona.id]

CommenterScore(persona, usage, jitter) ==
    IF UsageOf(usage, persona.id).commentsThisWeek >= DEFAULT_MAX_COMMENTS_PER_WEEK
    THEN -1
    ELSE Resolution * (100 - UsageOf(usage, persona.id).commentsThisWeek
                                * CommenterPenalty)
         + jitter[persona.id]

\* NaturalCounts with the draw starting at 1: Math.floor(Math.random() * 3) + 1
NaturalCountsFromOne == {1, 2, 3}

\* Math.floor(Math.random() * 3) + 2
NaturalCounts == {2, 3, 4}

\* selectCommenters; jitter[id] is the Math.random() * 30 drawn for persona id,
\* natural the Math.floor(Math.random() * 3) + 2 and coin the Math.random() > 0.5.
selectCommenters(personas, postAuthorId, existingPosts, existingComments, targetCommentCount, jitter, natural, coin) ==
    LET activePersonas == Filter(personas, {p \in Range(personas) : p.is_active})
        usage == calculatePersonaUsage(activePersonas, existingPosts, existingComments)
        nonAuthors == Filter(activePersonas,
                             {p \in Range(activePersonas) : p.id # postAuthorId})
        scored(p) ==
            [persona |-> p,
             score |-> CommenterScore(p, usage, jitter),
             reason |->
                IF UsageOf(usage, p.id).commentsThisWeek
                       >= DEFAULT_MAX_COMMENTS_PER_WEEK
                THEN "at_max_comments" ELSE "available"]
        all == Map(nonAuthors, scored)
        scoredPersonas == SortDesc(Filter(all, {s \in Range(all) : s.score >= 0}))
        actualCount == Min(Min(targetCommentCount, Len(scoredPersonas)), natural)
        selection(s) == [persona |-> s.persona, reason |-> s.reason]
        selections == Map(Slice(scoredPersonas, actualCount), selection)
        authors == Filter(activePersonas,
                          {p \in Range(activePersonas) : p.id = postAuthorId})
    IN IF /\ coin
          /\ authors # <<>>
          /\ UsageOf(usage, postAuthorId).commentsThisWeek
                 < DEFAULT_MAX_COMMENTS_PER_WEEK
       THEN selections \o <<[persona |-> authors[1], reason |-> "author_reply"]>>
       ELSE selections

(***************************************************************************)
(* The forum allocator.                                                    *)
(***************************************************************************)
SubredditJitter == 20

SubredditPenalty == 30

\* postsPerSubreddit.get(name) || 0
postsPerSubreddit(existingPostsThisWeek, name) ==
    Cardinality({i \in DOMAIN existingPostsThisWeek :
                    existingPostsThisWeek[i].subreddit_name = name})

\* usedThisSelection.get(name) || 0
usedThisSelection(selections, name) ==
    Cardinality({i \in DOMAIN selections : selections[i].subreddit.name = name})

\* existingCount + selectedCount of the loop body
totalCount(existingPostsThisWeek, selections, name) ==
    postsPerSubreddit(existingPostsThisWeek, name) + usedThisSelection(selections, name)

\* SubredditScore with a usage penalty smaller than the jitter
SubredditScoreWeakPenalty(count, jitter) ==
    Resolution * (100 - count * 10) + jitter

SubredditScore(count, jitter) ==
    Resolution * (100 - count * SubredditPenalty) + jitter

\* One iteration of selectSubredditsForWeek's loop: the selections with the
\* top-scored active subreddit appended.  jitter[name] is the Math.random() * 20.
selectSlot(activeSubreddits, existingPostsThisWeek, selections, jitter) ==
    LET scored(sub) ==
            LET count == totalCount(existingPostsThisWeek, selections, sub.name)
            IN [subreddit |-> sub,
                score |-> SubredditScore(count, jitter[sub.name]),
                reason |-> IF count = 0 THEN "fresh_subreddit" ELSE "available"]
        scoredSubreddits == SortDesc(Map(activeSubreddits, scored))
    IN Append(selections, [subreddit |-> scoredSubreddits[1].subreddit,
                           reason |-> scoredSubreddits[1].reason])

RECURSIVE selectLoop(_, _, _, _)
selectLoop(activeSubreddits, existingPostsThisWeek, selections, jitters) ==
    IF jitters = <<>> THEN selections
    ELSE selectLoop(activeSubreddits, existingPostsThisWeek,
                    selectSlot(activeSubreddits, existingPostsThisWeek,
                               selections, Head(jitters)),
                    Tail(jitters))

\* a thrown Error, where a value is returned otherwise
THROWN == [thrown |-> TRUE]

\* activeSubredditsOf without the filter
activeSubredditsUnfiltered(subreddits) == subreddits

\* subreddits.filter((s) => s.is_active)
activeSubredditsOf(subreddits) ==
    Filter(subreddits, {x \in Range(subreddits) : x.is_active})

\* selectSubredditsForWeek; jitters[i] are the draws of slot i, one sequence
\* element per slot (Len(jitters) = postsPerWeek).
selectSubredditsForWeek(subreddits, existingPostsThisWeek, jitters) ==
    LET activeSubreddits == activeSubredditsOf(subreddits)
    IN IF activeSubreddits = <<>> THEN THROWN
       ELSE selectLoop(activeSubreddits, existingPostsThisWeek, <<>>, jitters)

(***************************************************************************)
(* Inputs of the pure-function specifications.                             *)
(***************************************************************************)
\* The result of a call: pending, returned with a value, or thrown.
PENDING == [status |-> "pending"]

Returned(v) == [status |-> "returned", value |-> v]

PersonaIds == 1..NumPersonas

RichBio == [mentions |-> {"entrepreneur"}, roles |-> {"consultant", "ops"}]

\* The persona lists: the empty list, and the personas 1..NumPersonas in order,
\* each active or not, operator or not; persona 1 with or without a bio.
PersonaLists ==
    {<<>>} \cup
    {[i \in PersonaIds |->
        [id |-> i, is_active |-> act[i], is_operator |-> op[i],
         bio |-> IF i = 1 THEN bio ELSE NoBio]] :
        act \in [PersonaIds -> BOOLEAN], op \in [PersonaIds -> BOOLEAN],
        bio \in {NoBio, RichBio}}

\* each key k of the sequence keys, n[k] times
RECURSIVE KeysOf(_, _)
KeysOf(keys, n) ==
    IF keys = <<>> THEN <<>>
    ELSE Repeat(Head(keys), n[Head(keys)]) \o KeysOf(Tail(keys), n)

IdSeq == [i \in PersonaIds |-> i]

PostBy(id) == [author_persona_id |-> id, subreddit_name |-> "powerpoint"]

CommentBy(id) == [author_persona_id |-> id]

\* no second request has been made
NoRival ==
    [pc |-> "idle", i |-> 1, selections |-> <<>>, existingPosts |-> <<>>,
     existingComments |-> <<>>]

RunIdle ==
    /\ campaign = NULL
    /\ planStatus = "none"
    /\ posts = <<>>
    /\ comments = <<>>
    /\ topicMemory = <<>>
    /\ connected = TRUE
    /\ pc = "idle"
    /\ run = NULL
    /\ rival = NoRival

(***************************************************************************)
(* SpecAuthor: selectPostAuthor applied to every input of the bounds.      *)
(***************************************************************************)
InitAuthor ==
    /\ RunIdle
    /\ result = PENDING
    /\ \E personas \in PersonaLists,
          n \in [PersonaIds -> 0..MaxExistingPosts] :
          call = [fn |-> "selectPostAuthor",
                  personas |-> personas,
                  subreddit |-> [name |-> "entrepreneur", is_active |-> TRUE],
                  existingPosts |-> Map(KeysOf(IdSeq, n), PostBy),
                  existingComments |-> <<>>]

CallSelectPostAuthor ==
    /\ result = PENDING
    /\ call.fn = "selectPostAuthor"
    /\ \E jitter \in [PersonaIds -> JitterValues(AuthorJitter)] :
          result' = Returned(selectPostAuthor(call.personas, call.subreddit,
                                              call.existingPosts,
                                              call.existingComments, jitter))
    /\ UNCHANGED <<call, runVars>>

NextAuthor == CallSelectPostAuthor

SpecAuthor == InitAuthor /\ [][NextAuthor]_vars

\* The number of rows of existingPosts whose author is persona id
PostsOfPersona(existingPosts, id) ==
    Cardinality({i \in DOMAIN existingPosts : existingPosts[i].author_persona_id = id})

\* C2: selectPostAuthor returns the first active operator with reason "operator"
\* whatever its post count; with no active operator it returns an active persona
\* with fewer than 2 posts in existingPosts, and null exactly when no active
\* persona has fewer than 2 posts (the empty list included).  An inactive
\* persona is never returned.
C2_SelectPostAuthor ==
    (call.fn = "selectPostAuthor" /\ result.status = "returned") =>
        LET ps == call.personas
            v == result.value
            operatorAt == {i \in DOMAIN ps : ps[i].is_active /\ ps[i].is_operator}
            underCap == {i \in DOMAIN ps :
                            /\ ps[i].is_active
                            /\ PostsOfPersona(call.existingPosts, ps[i].id) < 2}
        IN /\ operatorAt # {} =>
                \E i \in operatorAt :
                    /\ \A j \in operatorAt : i <= j
                    /\ v = [persona |-> ps[i], reason |-> "operator"]
           /\ operatorAt = {} =>
                /\ (v = NULL) <=> (underCap = {})
                /\ v # NULL => \E i \in underCap : v.persona = ps[i]
           /\ v # NULL => v.persona.is_active

\* An active operator that already has 2 or more posts was returned.
C2_Witness ==
    /\ call.fn = "selectPostAuthor"
    /\ result.status = "returned"
    /\ result.value # NULL
    /\ result.value.reason = "operator"
    /\ PostsOfPersona(call.existingPosts, result.value.persona.id) >= 2
    /\ \E p \in Range(call.personas) : p.is_active /\ ~p.is_operator

(***************************************************************************)
(* SpecForums: selectSubredditsForWeek, one loop iteration per step, on    *)
(* every input of the bounds.                                              *)
(***************************************************************************)
NameSeq == <<"powerpoint", "consulting", "entrepreneur">>

SubredditLists ==
    {[i \in DOMAIN NameSeq |-> [name |-> NameSeq[i], is_active |-> act[i]]] :
        act \in [DOMAIN NameSeq -> BOOLEAN]}

PostIn(name) == [author_persona_id |-> 1, subreddit_name |-> name]

InitForums ==
    /\ RunIdle
    /\ result = PENDING
    /\ \E subreddits \in SubredditLists,
          postsPerWeek \in 0..MaxForumSlots,
          n \in [SubredditNames -> 0..MaxExistingPosts] :
          call = [fn |-> "selectSubredditsForWeek",
                  subreddits |-> subreddits,
                  postsPerWeek |-> postsPerWeek,
                  existingPostsThisWeek |-> Map(KeysOf(NameSeq, n), PostIn)]

\* lines 17-30: the filter, the throw, the empty selections
ForumsEnter ==
    /\ call.fn = "selectSubredditsForWeek"
    /\ result = PENDING
    /\ result' = IF activeSubredditsOf(call.subreddits) = <<>>
                 THEN [status |-> "thrown"]
                 ELSE [status |-> "looping", selections |-> <<>>]
    /\ UNCHANGED <<call, runVars>>

\* lines 32-59: one iteration
ForumsSlot ==
    /\ call.fn = "selectSubredditsForWeek"
    /\ result.status = "looping"
    /\ Len(result.selections) < call.postsPerWeek
    /\ \E jitter \in [SubredditNames -> JitterValues(SubredditJitter)] :
          result' = [result EXCEPT !.selections =
                        selectSlot(activeSubredditsOf(call.subreddits),
                                   call.existingPostsThisWeek, @, jitter)]
    /\ UNCHANGED <<call, runVars>>

\* line 61
ForumsReturn ==
    /\ call.fn = "selectSubredditsForWeek"
    /\ result.status = "looping"
    /\ Len(result.selections) >= call.postsPerWeek
    /\ result' = Returned(result.selections)
    /\ UNCHANGED <<call, runVars>>

NextForums == ForumsEnter \/ ForumsSlot \/ ForumsReturn

SpecForums == InitForums /\ [][NextForums]_vars

\* The selections made so far by the call (none before the loop)
SelectionsSoFar ==
    IF result.status = "looping" THEN result.selections
    ELSE IF result.status = "returned" THEN result.value
    ELSE <<>>

ActiveNames == {x.name : x \in {y \in Range(call.subreddits) : y.is_active}}

ExistingIn(name) ==
    Cardinality({i \in DOMAIN call.existingPostsThisWeek :
                    call.existingPostsThisWeek[i].subreddit_name = name})

\* posts already scheduled this week plus selections made before slot i
RunningCount(name, i) ==
    ExistingIn(name)
    + Cardinality({j \in 1..(i - 1) : SelectionsSoFar[j].subreddit.name = name})

SelectedTimes(name) ==
    Cardinality({j \in DOMAIN SelectionsSoFar : SelectionsSoFar[j].subreddit.name = name})

C8_LeastUsedForum ==
    call.fn = "selectSubredditsForWeek" =>
        /\ \A i \in DOMAIN SelectionsSoFar :
              /\ SelectionsSoFar[i].subreddit.name \in ActiveNames
              /\ \A other \in ActiveNames :
                    RunningCount(SelectionsSoFar[i].subreddit.name, i)
                        <= RunningCount(other, i)
        /\ result.status = "returned" =>
              /\ (/\ \A name \in ActiveNames : ExistingIn(name) = 0
                  /\ call.postsPerWeek = Cardinality(ActiveNames))
                 => \A name \in ActiveNames : SelectedTimes(name) = 1
              /\ (/\ \A name \in ActiveNames : ExistingIn(name) = 0
                  /\ Cardinality(ActiveNames) = 3
                  /\ call.postsPerWeek = 6)
                 => \A name \in ActiveNames : SelectedTimes(name) = 2
              /\ \A name \in ActiveNames :
                    (/\ Cardinality(ActiveNames) = 3
                     /\ call.postsPerWeek = 3
                     /\ ExistingIn(name) = 2
                     /\ \A other \in ActiveNames \ {name} : ExistingIn(other) = 0)
                    => SelectedTimes(name) = 0

\* 3 fresh active forums and 6 slots: each forum was selected twice.
C8_Witness ==
    /\ call.fn = "selectSubredditsForWeek"
    /\ result.status = "returned"
    /\ call.postsPerWeek = 6
    /\ Cardinality(ActiveNames) = 3
    /\ \A name \in ActiveNames : ExistingIn(name) = 0 /\ SelectedTimes(name) = 2

(***************************************************************************)
(* SpecCommenters: selectCommenters applied to every input of the bounds.  *)
(***************************************************************************)
\* The comment counts of a persona: none, one below the cap, the cap
CommentCounts ==
    {0, DEFAULT_MAX_COMMENTS_PER_WEEK - 1, DEFAULT_MAX_COMMENTS_PER_WEEK}

\* The personas 1..NumPersonas, each active or not, and the empty list
CommenterLists ==
    {<<>>} \cup
    {[i \in PersonaIds |->
        [id |-> i, is_active |-> act[i], is_operator |-> FALSE, bio |-> NoBio]] :
        act \in [PersonaIds -> BOOLEAN]}

\* The post author: the first persona, the last, or one that is not in the list
AuthorIds == {0, 1, NumPersonas}

MaxTarget == 5

TargetCounts == {0, 3, MaxTarget}

InitCommenters ==
    /\ RunIdle
    /\ result = PENDING
    /\ \E personas \in CommenterLists,
          postAuthorId \in AuthorIds,
          n \in [PersonaIds -> CommentCounts],
          targetCommentCount \in TargetCounts :
          call = [fn |-> "selectCommenters",
                  personas |-> personas,
                  postAuthorId |-> postAuthorId,
                  existingPosts |-> <<>>,
                  existingComments |-> Map(KeysOf(IdSeq, n), CommentBy),
                  targetCommentCount |-> targetCommentCount]

CallSelectCommenters ==
    /\ result = PENDING
    /\ call.fn = "selectCommenters"
    /\ \E jitter \in [PersonaIds -> JitterValues(CommenterJitter)],
          natural \in NaturalCounts,
          coin \in BOOLEAN :
          result' = Returned(selectCommenters(call.personas, call.postAuthorId,
                                              call.existingPosts,
                                              call.existingComments,
                                              call.targetCommentCount,
                                              jitter, natural, coin))
    /\ UNCHANGED <<call, runVars>>

NextCommenters == CallSelectCommenters

SpecCommenters == InitCommenters /\ [][NextCommenters]_vars

CommentsOfPersona(existingComments, id) ==
    Cardinality({i \in DOMAIN existingComments :
                    existingComments[i].author_persona_id = id})

\* C9: selectCommenters returns no inactive persona and no persona with 10 or
\* more comments in existingComments, as a commenter or as the author_reply
\* entry; the post author is in no entry whose reason is not author_reply.
C9_CommenterCaps ==
    (call.fn = "selectCommenters" /\ result.status = "returned") =>
        \A j \in DOMAIN result.value :
            LET e == result.value[j]
            IN /\ e.persona \in Range(call.personas)
               /\ e.persona.is_active
               /\ CommentsOfPersona(call.existingComments, e.persona.id) < 10
               /\ e.reason # "author_reply" => e.persona.id # call.postAuthorId

\* A persona at the cap and the capped post author were left out while
\* another persona was selected.
C9_Witness ==
    /\ call.fn = "selectCommenters"
    /\ result.status = "returned"
    /\ result.value # <<>>
    /\ \E p \in Range(call.personas) :
          /\ p.is_active
          /\ p.id # call.postAuthorId
          /\ CommentsOfPersona(call.existingComments, p.id) >= 10
    /\ \E p \in Range(call.personas) :
          /\ p.is_active
          /\ p.id = call.postAuthorId
          /\ CommentsOfPersona(call.existingComments, p.id) >= 10

\* The active non-author personas under the comment cap
EligibleNonAuthors ==
    {p \in Range(call.personas) :
        /\ p.is_active
        /\ p.id # call.postAuthorId
        /\ CommentsOfPersona(call.existingComments, p.id) < 10}

MaxPlanLen == 2

\* usernames as stored for the personas, and as the generator may write them
ToLowerCase(s) ==
    CASE s = "Riley_Ops" -> "riley_ops"
      [] s = "Jordan_Consults" -> "jordan_consults"
      [] OTHER -> s

\* replies_to of a plan item: "post", undefined, or an index (0, 1, 2...)
POST == [post |-> TRUE]

UNDEFINED == [undefined |-> TRUE]

Index(k) == [index |-> k]

ItemIsValidWithoutIntent(item) ==
    /\ item.username # ""
    /\ item.replies_to # UNDEFINED

\* if (!item.username || item.replies_to === undefined || !item.intent)
ItemIsValid(item) ==
    /\ item.username # ""
    /\ item.replies_to # UNDEFINED
    /\ item.intent # ""

createFallbackStructure(postAuthor, commenters, numComments) ==
    LET nonAuthorCommenters ==
            Filter(commenters, {c \in Range(commenters) : c.id # postAuthor.id})
        first == <<[username |-> nonAuthorCommenters[1].username,
                    replies_to |-> POST,
                    intent |-> "shares relevant experience or recommendation"]>>
        second ==
            IF numComments >= 2 /\ Len(nonAuthorCommenters) >= 2
            THEN first \o <<[username |-> nonAuthorCommenters[2].username,
                             replies_to |-> Index(0),
                             intent |-> "agrees or adds to first comment"]>>
            ELSE first
        third ==
            IF numComments >= 3
            THEN second \o <<[username |-> postAuthor.username,
                              replies_to |-> Index(Len(second) - 1),
                              intent |-> "thanks for the recommendation"]>>
            ELSE second
    IN IF Len(nonAuthorCommenters) = 0 THEN <<>> ELSE third

\* llm is the answer of the external generator: the call failed, the output
\* did not parse, it parsed without a thread_plan array, or it parsed with one.
planThreadStructure(postAuthor, availableCommenters, numComments, llm) ==
    IF /\ llm.kind = "json"
       /\ llm.isArray
       /\ \A k \in DOMAIN llm.thread_plan : ItemIsValid(llm.thread_plan[k])
    THEN llm.thread_plan
    ELSE createFallbackStructure(postAuthor, availableCommenters, numComments)

\* Math.floor(Math.random() * (max - min + 1)) + min, the draw in units of
\* 1/Resolution
addRandomMinutes(date, min, max, draw) == date + (draw \div Resolution) + min

FirstDelay == [min |-> 15, max |-> 45]

NextDelay == [min |-> 5, max |-> 25]

\* personaMap.get(username.toLowerCase()): the last persona of the list whose
\* lowercased username is the key, NULL when there is none
personaMapGet(allCommenters, username) ==
    LET hits == {k \in DOMAIN allCommenters :
                    ToLowerCase(allCommenters[k].username) = ToLowerCase(username)}
    IN IF hits = {} THEN NULL
       ELSE allCommenters[CHOOSE k \in hits : \A h \in hits : h <= k]

replyToIndexOf(planned) ==
    IF planned.replies_to = POST THEN NULL ELSE planned.replies_to

\* the loop of planCommentThread from plan item i (1-based) on; high[k] says
\* whether the random delay of plan item k is the largest or the smallest
RECURSIVE threadLoop(_, _, _, _, _, _, _)
threadLoop(plan, i, commentList, currentTime, allCommenters, postAuthor, high) ==
    IF i > Len(plan) THEN commentList
    ELSE
        LET planned == plan[i]
            persona == personaMapGet(allCommenters, planned.username)
            d == IF i = 1 THEN FirstDelay ELSE NextDelay
            draw == IF high[i] THEN (d.max - d.min + 1) * Resolution - 1 ELSE 0
            time == addRandomMinutes(currentTime, d.min, d.max, draw)
        IN IF persona = NULL
           THEN threadLoop(plan, i + 1, commentList, currentTime,
                           allCommenters, postAuthor, high)
           ELSE threadLoop(plan, i + 1,
                           Append(commentList,
                                  [authorPersona |-> persona,
                                   replyToIndex |-> replyToIndexOf(planned),
                                   scheduledAt |-> time,
                                   isAuthorReply |-> persona.id = postAuthor.id]),
                           time, allCommenters, postAuthor, high)

planCommentThread(postAuthor, commenters, postScheduledAt, llm, high) ==
    LET allCommenters ==
            IF \E k \in DOMAIN commenters : commenters[k].id = postAuthor.id
            THEN commenters
            ELSE Append(commenters, postAuthor)
        structure == planThreadStructure(postAuthor, allCommenters, 3, llm)
    IN IF Len(structure) = 0 THEN <<>>
       ELSE threadLoop(structure, 1, <<>>, postScheduledAt, allCommenters,
                       postAuthor, high)

(***************************************************************************)
(* SpecThread: planCommentThread applied to every input of the bounds.     *)
(***************************************************************************)
Riley == [id |-> 1, username |-> "riley_ops"]

Jordan == [id |-> 2, username |-> "Jordan_Consults"]

Emily == [id |-> 3, username |-> "emily_econ"]

\* the commenters selectCommenters can hand over for the post author Riley
ThreadCommenterLists ==
    {<<>>, <<Riley>>, <<Jordan>>, <<Jordan, Emily>>, <<Jordan, Emily, Riley>>}

\* the usernames the generator writes: the author, a commenter in two
\* spellings, and a name of no persona
LlmNames == {"riley_ops", "jordan_consults", "Jordan_Consults", "alex_sells"}

LlmItems ==
    [username : LlmNames,
     replies_to : {POST} \cup {Index(k) : k \in 0..MaxPlanLen},
     intent : {"+1 endorsement"}]

LlmPlans == UNION {[1..n -> LlmItems] : n \in 0..MaxPlanLen}

\* plans that fail the validation of planThreadStructure
InvalidPlans ==
    {<<[username |-> "", replies_to |-> POST, intent |-> "+1 endorsement"]>>,
     <<[username |-> "jordan_consults", replies_to |-> POST, intent |-> ""]>>,
     <<[username |-> "jordan_consults", replies_to |-> POST,
        intent |-> "+1 endorsement"],
       [username |-> "riley_ops", replies_to |-> UNDEFINED,
        intent |-> "OP thanks"]>>}

LlmAnswers ==
    {[kind |-> "error", isArray |-> FALSE, thread_plan |-> <<>>],
     [kind |-> "unparsable", isArray |-> FALSE, thread_plan |-> <<>>],
     [kind |-> "json", isArray |-> FALSE, thread_plan |-> <<>>]}
    \cup {[kind |-> "json", isArray |-> TRUE, thread_plan |-> plan] :
             plan \in LlmPlans \cup InvalidPlans}

DelayChoices == [1..Max(MaxPlanLen, 3) -> BOOLEAN]

InitThread ==
    /\ RunIdle
    /\ result = PENDING
    /\ \E commenters \in ThreadCommenterLists :
          \/ call = [fn |-> "planCommentThread",
                     postAuthor |-> Riley,
                     commenters |-> commenters,
                     postScheduledAt |-> 0]
          \/ \E numComments \in 1..MaxTarget :
                call = [fn |-> "planThreadStructure",
                        postAuthor |-> Riley,
                        availableCommenters |-> commenters,
                        numComments |-> numComments]

CallPlanCommentThread ==
    /\ result = PENDING
    /\ call.fn = "planCommentThread"
    /\ \E llm \in LlmAnswers, high \in DelayChoices :
          result' = [status |-> "returned",
                     llm |-> llm,
                     value |-> planCommentThread(call.postAuthor, call.commenters,
                                                 call.postScheduledAt, llm, high)]
    /\ UNCHANGED <<call, runVars>>

CallPlanThreadStructure ==
    /\ result = PENDING
    /\ call.fn = "planThreadStructure"
    /\ \E llm \in LlmAnswers :
          result' = [status |-> "returned",
                     llm |-> llm,
                     value |-> planThreadStructure(call.postAuthor,
                                                   call.availableCommenters,
                                                   call.numComments, llm)]
    /\ UNCHANGED <<call, runVars>>

NextThread ==
    \/ CallPlanCommentThread
    \/ CallPlanThreadStructure

SpecThread == InitThread /\ [][NextThread]_vars

\* C6: in the comment list that planCommentThread returns, every replyToIndex
\* is null or the index of an earlier comment of that list (0 <= k < j),
\* whatever plan the generator returned.
C6_ReplyForest ==
    (call.fn = "planCommentThread" /\ result.status = "returned") =>
        \A j \in DOMAIN result.value :
            \/ result.value[j].replyToIndex = NULL
            \/ result.value[j].replyToIndex \in {Index(k) : k \in 0..(j - 2)}

(***************************************************************************)
(* The orchestrator: the plan-creation route, the generation-stream route  *)
(* and generateContentForPlan, one action per stretch of code between two  *)
(* awaits.                                                                 *)
(***************************************************************************)
MaxFaults == 1

RunPersona(p, active, operator) ==
    [id |-> p.id, username |-> p.username, is_active |-> active,
     is_operator |-> operator, bio |-> NoBio]

\* an operator with two colleagues; two personas and no operator; nobody
PersonaTeams ==
    {<<RunPersona(Riley, TRUE, TRUE), RunPersona(Jordan, TRUE, FALSE),
       RunPersona(Emily, TRUE, FALSE)>>,
     <<RunPersona(Riley, TRUE, FALSE), RunPersona(Jordan, TRUE, FALSE),
       RunPersona(Emily, FALSE, FALSE)>>,
     <<RunPersona(Riley, FALSE, FALSE), RunPersona(Jordan, FALSE, FALSE),
       RunPersona(Emily, FALSE, FALSE)>>}

ForumSets ==
    {<<[name |-> "powerpoint", is_active |-> active],
       [name |-> "consulting", is_active |-> active]>> : active \in BOOLEAN}

KeywordSets ==
    {<<[keyword_code |-> "K1", is_active |-> active]>> : active \in BOOLEAN}

\* the campaigns; one without an active keyword plans one post a week
Campaigns ==
    {c \in [personas : PersonaTeams, subreddits : ForumSets,
            keywords : KeywordSets, posts_per_week : 1..MaxSlots] :
        c.keywords[1].is_active \/ c.posts_per_week = 1}

\* rows of an earlier plan of the same campaign and week: a post of each of
\* the first two personas, on one topic
OldPost(id, forum) ==
    [id |-> id, plan |-> "old", author_persona_id |-> id,
     subreddit_name |-> forum, topic_key |-> [name |-> "deck_tips", at |-> 0],
     week |-> "this", day |-> 0, scored |-> TRUE]

OldTopic ==
    [topic_key |-> [name |-> "deck_tips", at |-> 0], times_used |-> 2,
     last_subreddit_name |-> "consulting", last_used_at |-> 2]

ExistingRows ==
    {[posts |-> <<>>, topicMemory |-> <<>>],
     [posts |-> <<OldPost(1, "powerpoint"), OldPost(2, "consulting")>>,
      topicMemory |-> <<OldTopic>>]}

NewRun ==
    [validated |-> FALSE, outcome |-> "running", personas |-> <<>>,
     keywords |-> <<>>, selections |-> <<>>, existingPosts |-> <<>>,
     existingComments |-> <<>>, i |-> 1, postsGenerated |-> 0,
     commentsGenerated |-> 0, errors |-> <<>>, faults |-> 0, author |-> NULL,
     topic |-> NULL, post |-> 0, thread |-> <<>>, j |-> 1, commentIdMap |-> <<>>,
     events |-> <<>>]

\* onProgress?.({ step, postIndex: i + 1, ... }) for each step of the list, in
\* a run whose consumer reads: the events the route's sendEvent has enqueued
Progress(r, steps) ==
    [r EXCEPT !.events = @ \o [k \in DOMAIN steps |->
                                  [step |-> steps[k], postIndex |-> r.i]]]

\* the two plan_created events of lines 376-390, which carry no postIndex
PlanCreated(r) ==
    [r EXCEPT !.events = @ \o <<[step |-> "plan_created", postIndex |-> 0],
                                 [step |-> "plan_created", postIndex |-> 0]>>]

Init ==
    /\ call = NULL
    /\ result = NULL
    /\ campaign \in Campaigns
    /\ planStatus \in {"none", "generating"}
    /\ \E rows \in ExistingRows :
          /\ posts = rows.posts
          /\ topicMemory = rows.topicMemory
    /\ comments = <<>>
    /\ connected = TRUE
    /\ pc = "idle"
    /\ run = NULL
    /\ rival = NoRival

Active(rows) == Filter(rows, {x \in Range(rows) : x.is_active})

\* POST /api/campaigns/[id]/calendar/create
CreatePlan ==
    /\ pc = "idle"
    /\ planStatus = "none"
    /\ IF Active(campaign.personas) = <<>> \/ Active(campaign.subreddits) = <<>>
       THEN /\ pc' = "rejected"
            /\ UNCHANGED planStatus
       ELSE /\ planStatus' = "generating"
            /\ UNCHANGED pc
    /\ UNCHANGED <<fnVars, rival, campaign, posts, comments, topicMemory, connected, run>>

\* POST /api/generate-calendar-stream, up to the start of the stream
StreamRequest ==
    /\ pc \in {"idle", "done"}
    /\ planStatus # "none"
    /\ IF planStatus # "generating"
       THEN UNCHANGED <<pc, run, connected>>
       ELSE /\ pc' = "load"
            /\ run' = NewRun
            /\ connected' = TRUE
    /\ UNCHANGED <<fnVars, rival, campaign, planStatus, posts, comments, topicMemory>>

\* the consumer of the event stream goes away: from then on
\* controller.enqueue, and with it sendEvent and the progress callback, throws
AwaitPoints == {"load", "topic", "insert_post", "thread", "comments", "finish"}

Disconnect ==
    /\ pc \in AwaitPoints
    /\ connected
    /\ connected' = FALSE
    /\ UNCHANGED <<fnVars, rival, campaign, planStatus, posts, comments, topicMemory, pc, run>>

\* the draws of the jitters in a run: the least for every persona, or the
\* greatest for the second persona
RunJitters(r) ==
    {[id \in PersonaIds |-> 0]}
    \cup {[id \in PersonaIds |-> IF id = k THEN r * Resolution - 1 ELSE 0] :
             k \in {Jordan.id}}

ForumJitters ==
    {[name \in SubredditNames |-> IF name = n THEN SubredditJitter * Resolution - 1 ELSE 0] :
        n \in {"powerpoint", "consulting"}}

ThisWeek(rows) == Filter(rows, {x \in Range(rows) : x.week = "this"})

\* generateContentForPlan, lines 312-395: load, validate, snapshot, select
RunLoad ==
    /\ pc = "load"
    /\ LET personas == Active(campaign.personas)
           subreddits == Active(campaign.subreddits)
           keywords == Active(campaign.keywords)
       IN IF personas = <<>> \/ subreddits = <<>>
          THEN /\ run' = [run EXCEPT !.outcome = "thrown"]
               /\ pc' = "caught"
          ELSE IF ~connected
          THEN /\ run' = [run EXCEPT !.validated = TRUE, !.outcome = "thrown"]
               /\ pc' = "caught"
          ELSE \E jitters \in [1..campaign.posts_per_week -> ForumJitters] :
                  /\ run' = [PlanCreated(run) EXCEPT
                               !.validated = TRUE,
                               !.personas = personas,
                               !.keywords = keywords,
                               !.existingPosts = ThisWeek(posts),
                               !.existingComments = comments,
                               !.selections =
                                   selectSubredditsForWeek(subreddits, ThisWeek(posts),
                                                           jitters)]
                  /\ pc' = "slot"
    /\ UNCHANGED <<fnVars, rival, campaign, planStatus, posts, comments, topicMemory, connected>>

\* the catch of the loop body (lines 648-651) and the step to the next slot
NextSlot(r) ==
    [r EXCEPT !.i = @ + 1, !.author = NULL, !.topic = NULL, !.post = 0,
              !.thread = <<>>, !.j = 1, !.commentIdMap = <<>>]

WithError(r, kind) == [r EXCEPT !.errors = Append(@, [slot |-> r.i, kind |-> kind])]

Caught(r) == NextSlot(WithError(r, "exception"))

\* lines 397-444: the head of the loop up to the call of generateTopic
SlotBegin ==
    /\ pc = "slot"
    /\ IF run.i > Len(run.selections)
       THEN /\ pc' = "finish"
            /\ UNCHANGED run
       ELSE IF ~connected
       THEN /\ run' = Caught(run)
            /\ UNCHANGED pc
       ELSE \E jitter \in RunJitters(AuthorJitter) :
               LET authorSelection ==
                       selectPostAuthor(run.personas,
                                        run.selections[run.i].subreddit,
                                        run.existingPosts, run.existingComments,
                                        jitter)
               IN IF authorSelection = NULL
                  THEN /\ run' = NextSlot(WithError(
                                      Progress(run, <<"generating_topic",
                                                      "generating_topic">>),
                                      "no_author"))
                       /\ UNCHANGED pc
                  ELSE /\ run' = [Progress(run, <<"generating_topic",
                                                  "generating_topic",
                                                  "generating_topic">>)
                                   EXCEPT !.author = authorSelection.persona]
                       /\ pc' = "topic"
    /\ UNCHANGED <<fnVars, rival, campaign, planStatus, posts, comments, topicMemory, connected>>

\* the topic keys the generator answers with, and the key of the fallback
\* (topic_<Date.now()>, here stamped with the slot)
TopicKeys(r) == {[name |-> "deck_tips", at |-> 0], [name |-> "topic", at |-> r.i]}

\* lines 446-491: generateTopic and generatePostContent
GenerateTopic ==
    /\ pc = "topic"
    /\ IF ~connected
       THEN /\ run' = Caught(run)
            /\ pc' = "slot"
       ELSE \E key \in TopicKeys(run) :
               /\ run' = [Progress(run, <<"generating_topic", "generating_post",
                                          "generating_post">>)
                           EXCEPT !.topic = key]
               /\ pc' = "insert_post"
    /\ UNCHANGED <<fnVars, rival, campaign, planStatus, posts, comments, topicMemory, connected>>

\* const dayOffset = Math.floor((i / subredditSelections.length) * 7), i from 0
dayOffset(i, n) == ((i - 1) * 7) \div n

recordTopicUsageByInsert(rows, topicKey, subredditName, now) ==
    Append(rows, [topic_key |-> topicKey, times_used |-> 1,
                  last_subreddit_name |-> subredditName, last_used_at |-> now])

recordTopicUsage(rows, topicKey, subredditName, now) ==
    IF \E k \in DOMAIN rows : rows[k].topic_key = topicKey
    THEN [k \in DOMAIN rows |->
            IF rows[k].topic_key = topicKey
            THEN [rows[k] EXCEPT !.last_used_at = now, !.times_used = @ + 1,
                                 !.last_subreddit_name = subredditName]
            ELSE rows[k]]
    ELSE Append(rows, [topic_key |-> topicKey, times_used |-> 1,
                       last_subreddit_name |-> subredditName, last_used_at |-> now])

\* lines 493-569: the insert of the post, the topic ledger, up to the call of
\* planCommentThread
InsertPost ==
    /\ pc = "insert_post"
    /\ \/ /\ run.faults < MaxFaults
          /\ run' = LET failed == WithError([run EXCEPT !.faults = @ + 1], "post_insert")
                    IN IF connected
                       THEN NextSlot(Progress(failed, <<"generating_post">>))
                       ELSE Caught(failed)
          /\ pc' = "slot"
          /\ UNCHANGED <<posts, topicMemory>>
       \/ LET subreddit == run.selections[run.i].subreddit
              id == Len(posts) + 1
          IN /\ posts' = Append(posts,
                    [id |-> id, plan |-> "new",
                     author_persona_id |-> run.author.id,
                     subreddit_name |-> subreddit.name, topic_key |-> run.topic,
                     week |-> "this",
                     day |-> dayOffset(run.i, Len(run.selections)),
                     scored |-> FALSE])
             /\ topicMemory' = recordTopicUsage(topicMemory, run.topic,
                                                subreddit.name, id)
             /\ IF connected
                THEN /\ run' = [Progress(run, <<"generating_post",
                                                 "generating_comments",
                                                 "generating_comments",
                                                 "generating_comments">>)
                                  EXCEPT !.postsGenerated = @ + 1, !.post = id]
                     /\ pc' = "thread"
                ELSE /\ run' = Caught([run EXCEPT !.postsGenerated = @ + 1])
                     /\ pc' = "slot"
    /\ UNCHANGED <<fnVars, rival, campaign, planStatus, comments, connected>>

\* the thread plans the generator answers with in a run: none (the fallback
\* is used), and a plan with an unknown username, a forward reference and a
\* reply of the author
RunLlmAnswers ==
    {[kind |-> "error", isArray |-> FALSE, thread_plan |-> <<>>],
     [kind |-> "json", isArray |-> TRUE,
      thread_plan |->
        <<[username |-> "alex_sells", replies_to |-> POST,
           intent |-> "+1 endorsement"],
          [username |-> "Jordan_Consults", replies_to |-> Index(1),
           intent |-> "+1 endorsement"],
          [username |-> "riley_ops", replies_to |-> Index(0),
           intent |-> "OP thanks"]>>]}

\* lines 547-602: selectCommenters, planCommentThread, the scores of the post
PlanThread ==
    /\ pc = "thread"
    /\ IF ~connected
       THEN /\ run' = Caught(run)
            /\ pc' = "slot"
            /\ UNCHANGED posts
       ELSE \E jitter \in RunJitters(CommenterJitter), natural \in NaturalCounts,
               coin \in BOOLEAN, llm \in RunLlmAnswers :
               LET commenterSelections ==
                       selectCommenters(run.personas, run.author.id,
                                        run.existingPosts, run.existingComments,
                                        3, jitter, natural, coin)
                   personaOf(sel) == sel.persona
                   threadPlan ==
                       planCommentThread(run.author,
                                         Map(commenterSelections, personaOf), 0,
                                         llm, [k \in 1..3 |-> FALSE])
               IN /\ run' = [Progress(run, <<"generating_comments">>)
                              EXCEPT !.thread = threadPlan]
                  /\ posts' = [posts EXCEPT ![run.post].scored = TRUE]
                  /\ pc' = "comments"
    /\ UNCHANGED <<fnVars, rival, campaign, planStatus, comments, topicMemory, connected>>

replyToIdOfAnyIndex(r, comment) ==
    IF comment.replyToIndex = NULL THEN 0
    ELSE Len(comments) + 1 - (r.j - 1) + comment.replyToIndex.index

\* commentIdMap.get(comment.replyToIndex), 0 when there is no such key
replyToId(r, comment) ==
    IF comment.replyToIndex = NULL THEN 0
    ELSE IF comment.replyToIndex.index \in DOMAIN r.commentIdMap
         THEN r.commentIdMap[comment.replyToIndex.index]
         ELSE 0

\* lines 606-633: the insert of one comment of the thread
InsertComment ==
    /\ pc = "comments"
    /\ run.j <= Len(run.thread)
    /\ \/ /\ run.faults < MaxFaults
          /\ run' = WithError([run EXCEPT !.faults = @ + 1, !.j = @ + 1],
                              "comment_insert")
          /\ UNCHANGED comments
       \/ LET comment == run.thread[run.j]
              id == Len(comments) + 1
          IN /\ comments' = Append(comments,
                    [id |-> id, planned_post_id |-> run.post,
                     author_persona_id |-> comment.authorPersona.id,
                     reply_to_comment_id |-> replyToId(run, comment)])
             /\ run' = [run EXCEPT
                          !.commentIdMap =
                              [k \in DOMAIN @ \cup {run.j - 1} |->
                                  IF k = run.j - 1 THEN id ELSE @[k]],
                          !.commentsGenerated = @ + 1,
                          !.j = @ + 1]
    /\ UNCHANGED <<fnVars, rival, campaign, planStatus, posts, topicMemory, connected, pc>>

\* lines 635-647: the last two progress events of the slot
SlotEnd ==
    /\ pc = "comments"
    /\ run.j > Len(run.thread)
    /\ run' = IF connected
              THEN NextSlot(Progress(run, <<"generating_comments", "post_complete">>))
              ELSE Caught(run)
    /\ pc' = "slot"
    /\ UNCHANGED <<fnVars, rival, campaign, planStatus, posts, comments, topicMemory, connected>>

\* lines 654-671 and the route's sendEvent of the result: the plan becomes
\* ready; a sendEvent that throws is followed by the catch, whose own
\* sendEvent throws before the update to failed
RunFinish ==
    /\ pc = "finish"
    /\ planStatus' = "ready"
    /\ run' = [run EXCEPT !.outcome = "returned"]
    /\ pc' = "done"
    /\ UNCHANGED <<fnVars, rival, campaign, posts, comments, topicMemory, connected>>

\* the route's catch: sendEvent, then the update of the plan to failed
RunCatch ==
    /\ pc = "caught"
    /\ planStatus' = IF connected THEN "failed" ELSE planStatus
    /\ pc' = "done"
    /\ UNCHANGED <<fnVars, rival, campaign, posts, comments, topicMemory, connected, run>>

Next ==
    \/ CreatePlan
    \/ StreamRequest
    \/ Disconnect
    \/ RunLoad
    \/ SlotBegin
    \/ GenerateTopic
    \/ InsertPost
    \/ PlanThread
    \/ InsertComment
    \/ SlotEnd
    \/ RunFinish
    \/ RunCatch

Spec == Init /\ [][Next]_vars

(***************************************************************************)
(* Properties of the orchestrator.                                         *)
(***************************************************************************)
PostsThisWeek(rows, id) ==
    Cardinality({k \in DOMAIN rows :
                    rows[k].week = "this" /\ rows[k].author_persona_id = id})

NoOperatorPersona ==
    \A k \in DOMAIN campaign.personas : ~campaign.personas[k].is_operator

\* C1: in a campaign with no operator persona the weekly post cap holds across
\* a run: when a slot is begun the posts-this-week counts that selectPostAuthor
\* is given equal the counts of the persisted posts of the week, and no
\* persona is ever the author of more than 2 posts of the week.
C1_WeeklyPostCap ==
    (campaign # NULL /\ NoOperatorPersona) =>
        /\ \A id \in PersonaIds :
              PostsThisWeek(posts, id) <= DEFAULT_MAX_POSTS_PER_WEEK
        /\ (pc = "slot" /\ run.i <= Len(run.selections)) =>
              \A id \in PersonaIds :
                 PostsThisWeek(run.existingPosts, id) = PostsThisWeek(posts, id)

SlotPosted(s) ==
    \E k \in DOMAIN posts :
        /\ posts[k].plan = "new"
        /\ posts[k].day = dayOffset(s, Len(run.selections))

\* C3: once validation has passed the run never throws: it goes through all
\* its slots and returns, and every slot that ended without a persisted post
\* has added at least one error.
C3_RunNeverAborts ==
    (run # NULL /\ run.validated) =>
        /\ run.outcome # "thrown"
        /\ pc = "done" =>
              /\ run.outcome = "returned"
              /\ run.i = Len(run.selections) + 1
        /\ \A s \in 1..(run.i - 1) :
              \/ SlotPosted(s)
              \/ \E k \in DOMAIN run.errors : run.errors[k].slot = s

LacksActive ==
    \/ Active(campaign.personas) = <<>>
    \/ Active(campaign.subreddits) = <<>>
    \/ Active(campaign.keywords) = <<>>

SlotPoints == {"slot", "topic", "insert_post", "thread", "comments", "finish"}

\* C4: for a campaign without active personas, without active forums or
\* without active keywords no step processes a slot and no step creates or
\* changes a row: no post, comment or topic row, and no plan is created or
\* made ready (the step of a failed run's plan to failed is left aside).
C4_ValidationBeforeMutation ==
    [][(campaign # NULL /\ LacksActive) =>
          /\ pc' \notin SlotPoints
          /\ posts' = posts
          /\ comments' = comments
          /\ topicMemory' = topicMemory
          /\ (planStatus' = planStatus \/ planStatus' = "failed")]_vars

\* C5: a plan only goes from generating to ready or to failed, and a run that
\* has ended has left its plan ready when it returned a result and failed
\* when it threw.
C5_PlanStatusMachine ==
    /\ [](pc = "done" =>
            /\ run.outcome = "returned" => planStatus = "ready"
            /\ run.outcome = "thrown" => planStatus = "failed")
    /\ [][planStatus' # planStatus =>
            \/ planStatus = "none" /\ planStatus' = "generating"
            \/ planStatus = "generating" /\ planStatus' \in {"ready", "failed"}]_vars

(***************************************************************************)
(* The end-to-end scenario: three active personas of which the first is    *)
(* the operator, two active forums without a post this week, four active   *)
(* keywords and four posts a week.                                         *)
(***************************************************************************)
OperatorTeam ==
    <<RunPersona(Riley, TRUE, TRUE), RunPersona(Jordan, TRUE, FALSE),
      RunPersona(Emily, TRUE, FALSE)>>

EndToEndCampaign ==
    [personas |-> OperatorTeam,
     subreddits |-> <<[name |-> "powerpoint", is_active |-> TRUE],
                      [name |-> "consulting", is_active |-> TRUE]>>,
     keywords |-> [k \in 1..4 |-> [keyword_code |-> k, is_active |-> TRUE]],
     posts_per_week |-> 4]

InitEndToEnd ==
    /\ call = NULL
    /\ result = NULL
    /\ campaign = EndToEndCampaign
    /\ planStatus \in {"none", "generating"}
    /\ posts = <<>>
    /\ topicMemory = <<>>
    /\ comments = <<>>
    /\ connected = TRUE
    /\ pc = "idle"
    /\ run = NULL
    /\ rival = NoRival

SpecEndToEnd == InitEndToEnd /\ [][Next]_vars

NewPosts == Filter(posts, {x \in Range(posts) : x.plan = "new"})

\* C11: in the end-to-end scenario a run without a persistence failure ends
\* with exactly 4 persisted posts, every one of the operator, at least one in
\* each of the 2 forums, and with the plan ready.
C11_EndToEnd ==
    (pc = "done" /\ run # NULL /\ run.faults = 0) =>
        /\ Len(NewPosts) = 4
        /\ \A k \in DOMAIN NewPosts : NewPosts[k].author_persona_id = Riley.id
        /\ \A n \in {"powerpoint", "consulting"} :
              \E k \in DOMAIN NewPosts : NewPosts[k].subreddit_name = n
        /\ planStatus = "ready"


(***************************************************************************)
(* Properties of planCommentThread and planThreadStructure.                *)
(***************************************************************************)
NonAuthors(commenters, postAuthor) ==
    Filter(commenters, {c \in Range(commenters) : c.id # postAuthor.id})

\* C12: for the post author and the two other personas of the end-to-end
\* scenario as commenters, the thread planCommentThread returns has between 2
\* and 5 comments, from the generator's plan and from the fallback alike.
C12_ThreadSize ==
    (/\ call.fn = "planCommentThread"
     /\ result.status = "returned"
     /\ Len(NonAuthors(call.commenters, call.postAuthor)) = 2) =>
        Len(result.value) \in 2..5

(***************************************************************************)
(* The scorers.  Scores are in hundredths (0.15 is 15); a text is what the *)
(* detectors of the risk scorer and countWords find in it.                 *)
(*   calculateThreadQuality exists in two copies: the one of               *)
(* thread-planner.ts, and the one of the longer copy of that file          *)
(* (part_004), which adds the terms of the comment lengths.                *)
(***************************************************************************)
RECURSIVE Sum(_)
Sum(s) == IF s = <<>> THEN 0 ELSE Head(s) + Sum(Tail(s))

ClampNoLowerBound(score) == Min(100, score)

\* Math.max(0, Math.min(1, score))
Clamp(score) == Max(0, Min(100, score))

AuthorIdsOf(commentList) == [k \in DOMAIN commentList |-> commentList[k].authorPersona.id]

uniqueCommenters(commentList) == Range(AuthorIdsOf(commentList))

topLevelCount(commentList) ==
    Cardinality({k \in DOMAIN commentList : commentList[k].replyToIndex = NULL})

hasDepth(commentList) ==
    \E k \in DOMAIN commentList :
        /\ commentList[k].replyToIndex # NULL
        /\ commentList[k].replyToIndex.index > 0

opParticipates(commentList, postAuthorId) ==
    \E k \in DOMAIN commentList : commentList[k].authorPersona.id = postAuthorId

hasGoodTimingOfSomeGap(commentList) ==
    /\ Len(commentList) >= 2
    /\ \A i \in 2..Len(commentList) :
          commentList[i].scheduledAt - commentList[i - 1].scheduledAt \in 3..120

\* scheduledAt is in minutes
hasGoodTiming(commentList) ==
    \A i \in 2..Len(commentList) :
        LET gapMinutes == commentList[i].scheduledAt - commentList[i - 1].scheduledAt
        IN ~(gapMinutes < 3 \/ gapMinutes > 120)

commentCounts(commentList, personaId) ==
    Cardinality({k \in DOMAIN commentList : commentList[k].authorPersona.id = personaId})

frequencyPenalty(commentList, postAuthorId, personaId) ==
    LET count == commentCounts(commentList, personaId)
    IN (IF count > 1 /\ personaId # postAuthorId THEN 10 ELSE 0)
       + (IF count > 2 THEN 15 ELSE 0)

frequencyPenalties(commentList, postAuthorId) ==
    LET ids == uniqueCommenters(commentList)
        order == CHOOSE s \in [1..Cardinality(ids) -> ids] : Range(s) = ids
    IN Sum([k \in DOMAIN order |->
               frequencyPenalty(commentList, postAuthorId, order[k])])

firstCommenterBonusForAnyAuthor(commentList, postAuthorId) ==
    IF Len(commentList) > 0 THEN 10 ELSE 0

firstCommenterBonus(commentList, postAuthorId) ==
    IF Len(commentList) > 0 /\ commentList[1].authorPersona.id # postAuthorId
    THEN 10 ELSE 0

\* the terms both copies have: thread-planner.ts 288-345
qualityTerms(commentList, postAuthorId) ==
    LET size == Cardinality(uniqueCommenters(commentList))
        replyCount == Len(commentList) - topLevelCount(commentList)
    IN 50
       + (IF size >= 2 /\ size <= 4 THEN 10 ELSE 0)
       + firstCommenterBonus(commentList, postAuthorId)
       + (IF topLevelCount(commentList) > 0 /\ replyCount > 0 THEN 15 ELSE 0)
       + (IF hasDepth(commentList) THEN 10 ELSE 0)
       + (IF opParticipates(commentList, postAuthorId) THEN 10 ELSE 0)
       + (IF hasGoodTiming(commentList) THEN 5 ELSE 0)
       - frequencyPenalties(commentList, postAuthorId)

\* the terms of the comment lengths, part_004 714-733: with n lengths of sum
\* s and sum of squares q the variance is (n*q - s*s) / (n*n), so that
\* stdDev >= 5 is n*q - s*s >= 25*n*n and stdDev < 3 is n*q - s*s < 9*n*n
lengthTerms(commentList) ==
    IF Len(commentList) >= 2
    THEN LET lengths == [k \in DOMAIN commentList |-> commentList[k].text.words]
             n == Len(lengths)
             s == Sum(lengths)
             q == Sum([k \in DOMAIN lengths |-> lengths[k] * lengths[k]])
             hasSuperShort == \E k \in DOMAIN lengths : lengths[k] <= 5
         IN (IF n * q - s * s >= 25 * n * n THEN 10
             ELSE IF n * q - s * s < 9 * n * n THEN -15 ELSE 0)
            + (IF hasSuperShort THEN 5 ELSE 0)
    ELSE 0

\* the two copies of the file
Builds == {"thread-planner.ts", "part_004"}

calculateThreadQuality(commentList, postAuthorId, build) ==
    Clamp(qualityTerms(commentList, postAuthorId)
          + IF build = "part_004" THEN lengthTerms(commentList) ELSE 0)

\* countWords(text) > 80 for a post, > 30 for a comment
isContentTooLong(text, isPost) ==
    IF isPost THEN text.words > 80 ELSE text.words > 30

CountOf(texts, found) == Cardinality({k \in DOMAIN texts : texts[k] \in found})

prohibitedTerm(allTexts) ==
    LET prohibitedCount == CountOf(allTexts, {t \in Range(allTexts) : t.prohibited})
    IN IF prohibitedCount > 0 THEN 30 * Min(prohibitedCount, 3) ELSE 0

buzzwordTerm(allTexts) ==
    LET buzzwordCount == CountOf(allTexts, {t \in Range(allTexts) : t.buzzword})
    IN IF buzzwordCount > 0 THEN 15 * Min(buzzwordCount, 2) ELSE 0

aiPatternTerm(commentTexts) ==
    LET totalAiPatterns == Sum([k \in DOMAIN commentTexts |-> commentTexts[k].aiPatterns])
    IN IF totalAiPatterns >= 5 THEN 40
       ELSE IF totalAiPatterns >= 3 THEN 25
       ELSE 10 * totalAiPatterns

fillerTerm(commentTexts) ==
    LET fillerCount == CountOf(commentTexts, {t \in Range(commentTexts) : t.filler})
    IN IF fillerCount >= 2 THEN 10 ELSE 0

lengthRiskTerm(commentTexts, postBody) ==
    LET longComments ==
            CountOf(commentTexts,
                    {t \in Range(commentTexts) : isContentTooLong(t, FALSE)})
    IN (IF postBody # NULL /\ isContentTooLong(postBody, TRUE) THEN 15 ELSE 0)
       + (IF longComments > 0 THEN 10 * Min(longComments, 3) ELSE 0)

formalTerm(allTexts) ==
    LET totalFormalPatterns == Sum([k \in DOMAIN allTexts |-> allTexts[k].formal])
    IN IF totalFormalPatterns >= 3 THEN 20
       ELSE IF totalFormalPatterns >= 1 THEN 10 * totalFormalPatterns
       ELSE 0

countDashes(texts) == Sum([k \in DOMAIN texts |-> texts[k].dashes])

dashTermOfManyLower(allTexts) ==
    LET dashCount == countDashes(allTexts)
    IN IF dashCount >= 3 THEN 15
       ELSE IF dashCount >= 1 THEN 10 * dashCount
       ELSE 0

dashTerm(allTexts) ==
    LET dashCount == countDashes(allTexts)
    IN IF dashCount >= 3 THEN 25
       ELSE IF dashCount >= 1 THEN 10 * dashCount
       ELSE 0

authenticityTerm(allTexts) ==
    LET totalAuthenticityMarkers ==
            Sum([k \in DOMAIN allTexts |-> allTexts[k].authenticity])
    IN IF totalAuthenticityMarkers >= 2 THEN -15
       ELSE IF totalAuthenticityMarkers >= 1 THEN -5
       ELSE 0

\* mentionRatio = productMentionCount / allTexts.length, NaN for no text
saturationTerm(allTexts) ==
    LET productMentionCount == CountOf(allTexts, {t \in Range(allTexts) : t.product})
        n == Len(allTexts)
    IN IF n = 0 THEN 0
       ELSE IF 4 * productMentionCount >= 3 * n THEN 40
       ELSE IF 2 * productMentionCount >= n THEN 25
       ELSE IF 4 * productMentionCount >= n THEN 10
       ELSE 0

shillingTerm(commentList, postAuthorId) ==
    LET nonOpMentioners ==
            {k \in DOMAIN commentList :
                /\ commentList[k].authorPersona.id # postAuthorId
                /\ commentList[k].text.product}
    IN IF Cardinality(nonOpMentioners) >= 2 THEN 20 ELSE 0

fishingTerm(commentList, postAuthorId) ==
    LET opComments ==
            {k \in DOMAIN commentList :
                commentList[k].authorPersona.id = postAuthorId}
        opMentionsProduct == \E k \in opComments : commentList[k].text.product
        opAsksQuestion ==
            \E k \in opComments :
                /\ commentList[k].text.question
                /\ commentList[k].replyToIndex # NULL
    IN IF opAsksQuestion /\ ~opMentionsProduct THEN 10 ELSE 0

\* the sum before the clamp; productName "" stands for no product name
riskTerms(commentList, postAuthorId, postBody, productName) ==
    LET commentTexts == [k \in DOMAIN commentList |-> commentList[k].text]
        allTexts == IF postBody # NULL THEN Append(commentTexts, postBody)
                    ELSE commentTexts
    IN prohibitedTerm(allTexts)
       + buzzwordTerm(allTexts)
       + aiPatternTerm(commentTexts)
       + fillerTerm(commentTexts)
       + lengthRiskTerm(commentTexts, postBody)
       + formalTerm(allTexts)
       + dashTerm(allTexts)
       + authenticityTerm(allTexts)
       + (IF productName # ""
          THEN saturationTerm(allTexts)
               + shillingTerm(commentList, postAuthorId)
               + fishingTerm(commentList, postAuthorId)
          ELSE 0)

calculateRiskScore(commentList, postAuthorId, postBody, productName) ==
    Clamp(riskTerms(commentList, postAuthorId, postBody, productName))

(***************************************************************************)
(* SpecScores: the two scorers applied to every input of the bounds.       *)
(***************************************************************************)
MaxThreadLen == 3

MaxRiskLen == 2

SpamTimes == 3

Alex == [id |-> 4, username |-> "alex_sells"]

PlainText ==
    [words |-> 10, prohibited |-> FALSE, buzzword |-> FALSE, aiPatterns |-> 0,
     filler |-> FALSE, formal |-> 0, dashes |-> 0, authenticity |-> 0,
     product |-> FALSE, question |-> FALSE]

\* "lol yeah same"
CasualText == [PlainText EXCEPT !.words = 4, !.authenticity = 2]

\* a text that names the product
PromoText == [PlainText EXCEPT !.product = TRUE]

\* a text with a question mark
QuestionText == [PlainText EXCEPT !.question = TRUE]

\* a text with one dash
DashText == [PlainText EXCEPT !.dashes = 1]

\* a long text with a link, a buzzword, a filler word and templated and formal
\* phrases
HeavyText ==
    [PlainText EXCEPT !.words = 31, !.prohibited = TRUE, !.buzzword = TRUE,
                      !.aiPatterns = 2, !.filler = TRUE, !.formal = 1]

TextKinds ==
    {PlainText, CasualText, PromoText, QuestionText, DashText, HeavyText}

createComment(persona, replyToIndex, minutesAfterPost, text) ==
    [authorPersona |-> persona, replyToIndex |-> replyToIndex, text |-> text,
     scheduledAt |-> minutesAfterPost, isAuthorReply |-> FALSE]

\* threads for the quality scorer: comments of the author and of one other
\* persona, on the post, on the first or on the second comment, 10 minutes
\* or 1 minute apart, of equal or of alternating length
GapKinds == {10, 1}

WordKinds == {<<10, 10>>, <<4, 20>>}

QualityThreads ==
    UNION {{[k \in 1..n |->
                createComment(authors[k], replies[k], 20 + gap * (k - 1),
                              [PlainText EXCEPT !.words = wordKind[1 + (k % 2)]])] :
               authors \in [1..n -> {Riley, Jordan}],
               replies \in [1..n -> {NULL, Index(0), Index(1)}],
               gap \in GapKinds, wordKind \in WordKinds} :
           n \in 0..MaxThreadLen}

\* each of the first k personas other than the author comments SpamTimes
\* times on the post, one minute apart
SpamThread(k) ==
    LET spammers == <<Jordan, Emily, Alex>>
    IN [j \in 1..(k * SpamTimes) |->
           createComment(spammers[1 + ((j - 1) % k)], NULL, 20 + j, PlainText)]

SpamThreads == {SpamThread(k) : k \in 1..3}

QualityCalls ==
    [fn : {"calculateThreadQuality"},
     commentList : QualityThreads \cup SpamThreads,
     postAuthorId : {Riley.id, Jordan.id},
     build : Builds]

\* threads for the risk scorer: up to n comments of the author and of one
\* other persona, on the post or on the first comment, of every kind of text
RiskThreads(n) ==
    UNION {[1..m -> {createComment(author, reply, 20, text) :
                        author \in {Riley, Jordan},
                        reply \in {NULL, Index(0)},
                        text \in TextKinds}] : m \in 0..n}

\* no post body and no product name; a product name without and with a post
\* body, which does not or does name the product
PostKinds ==
    {[postBody |-> NULL, productName |-> ""],
     [postBody |-> NULL, productName |-> "slideforge"],
     [postBody |-> PlainText, productName |-> "slideforge"],
     [postBody |-> PromoText, productName |-> "slideforge"]}

RiskCalls(n) ==
    {[fn |-> "calculateRiskScore", commentList |-> thread,
      postAuthorId |-> Riley.id, postBody |-> post.postBody,
      productName |-> post.productName] :
        thread \in RiskThreads(n), post \in PostKinds}

InitScores ==
    /\ RunIdle
    /\ result = PENDING
    /\ call \in QualityCalls \cup RiskCalls(MaxRiskLen)

CallCalculateThreadQuality ==
    /\ result = PENDING
    /\ call.fn = "calculateThreadQuality"
    /\ result' = Returned(calculateThreadQuality(call.commentList,
                                                 call.postAuthorId, call.build))
    /\ UNCHANGED <<call, runVars>>

CallCalculateRiskScore ==
    /\ result = PENDING
    /\ call.fn = "calculateRiskScore"
    /\ result' = Returned(calculateRiskScore(call.commentList, call.postAuthorId,
                                             call.postBody, call.productName))
    /\ UNCHANGED <<call, runVars>>

NextScores ==
    \/ CallCalculateThreadQuality
    \/ CallCalculateRiskScore

SpecScores == InitScores /\ [][NextScores]_vars

\* C13: every value calculateThreadQuality (either copy) or calculateRiskScore
\* returns is at least 0 and at most 1 (100 hundredths).
C13_ScoresInRange ==
    (call.fn \in {"calculateThreadQuality", "calculateRiskScore"}
     /\ result.status = "returned") =>
        (0 <= result.value /\ result.value <= 100)

C13_Witness ==
    /\ call.fn = "calculateThreadQuality"
    /\ result.status = "returned"
    /\ qualityTerms(call.commentList, call.postAuthorId) < 0
    /\ result.value = 0

\* C14: calculateThreadQuality of the empty comment list is exactly 0.55, the
\* base 0.5 and the timing bonus 0.05, for every post author id.
C14_EmptyThreadQuality ==
    (call.fn = "calculateThreadQuality" /\ result.status = "returned"
     /\ call.commentList = <<>>) =>
        result.value = 55

C14_Witness ==
    /\ call.fn = "calculateThreadQuality"
    /\ result.status = "returned"
    /\ call.commentList = <<>>
    /\ call.postAuthorId = Jordan.id

\* C14 as the specification states it: the empty comment list scores exactly
\* 0.5.
C14_EmptyThreadQualityHalf ==
    (call.fn = "calculateThreadQuality" /\ result.status = "returned"
     /\ call.commentList = <<>>) =>
        result.value = 50

\* the threads that differ from commentList only in that the author of the
\* first comment and the author of a later comment are exchanged: the same
\* reply indices, schedule and texts, the same personas with the same numbers
\* of comments
Reassigned(commentList) ==
    {[k \in DOMAIN commentList |->
         [commentList[k] EXCEPT
             !.authorPersona =
                 IF k = 1 THEN commentList[j].authorPersona
                 ELSE IF k = j THEN commentList[1].authorPersona
                 ELSE @]] :
        j \in 2..Len(commentList)}

\* C15: a thread whose first comment is by the post author never scores
\* higher than a thread that differs from it only in that its first comment is
\* by another persona, and it scores strictly lower unless both scores are
\* clamped to the same bound (the first to 1, or the other to 0).
C15_FirstCommenterBonus ==
    (/\ call.fn = "calculateThreadQuality"
     /\ result.status = "returned"
     /\ call.commentList # <<>>
     /\ call.commentList[1].authorPersona.id = call.postAuthorId) =>
        \A other \in Reassigned(call.commentList) :
            other[1].authorPersona.id # call.postAuthorId =>
                LET quality == calculateThreadQuality(other, call.postAuthorId,
                                                      call.build)
                IN /\ quality >= result.value
                   /\ quality > result.value \/ result.value = 100 \/ quality = 0

\* a thread of three comments, the first by the post author, which scores 1,
\* as does the thread with the authors of the first two comments exchanged
C15_Witness ==
    /\ call.fn = "calculateThreadQuality"
    /\ result.status = "returned"
    /\ Len(call.commentList) = 3
    /\ call.commentList[1].authorPersona.id = call.postAuthorId
    /\ call.commentList[2].authorPersona.id # call.postAuthorId
    /\ result.value = 100

\* C15 as the specification states it: the thread whose first comment is by
\* another persona always scores strictly higher.
C15_FirstCommenterStrictlyHigher ==
    (/\ call.fn = "calculateThreadQuality"
     /\ result.status = "returned"
     /\ call.commentList # <<>>
     /\ call.commentList[1].authorPersona.id = call.postAuthorId) =>
        \A other \in Reassigned(call.commentList) :
            other[1].authorPersona.id # call.postAuthorId =>
                calculateThreadQuality(other, call.postAuthorId, call.build)
                    > result.value

(***************************************************************************)
(* Properties of calculateRiskScore.                                       *)
(***************************************************************************)
RiskOf(c) ==
    calculateRiskScore(c.commentList, c.postAuthorId, c.postBody, c.productName)

\* the texts of a call: comment k, and 0 for the post body
TextPositions(c) ==
    DOMAIN c.commentList \cup (IF c.postBody # NULL THEN {0} ELSE {})

TextAt(c, k) == IF k = 0 THEN c.postBody ELSE c.commentList[k].text

WithText(c, k, text) ==
    IF k = 0 THEN [c EXCEPT !.postBody = text]
    ELSE [c EXCEPT !.commentList[k].text = text]

\* the calls with one text more that contains a link, a buzzword, the product
MoreLinks(c) ==
    {WithText(c, k, [TextAt(c, k) EXCEPT !.prohibited = TRUE]) :
        k \in {k \in TextPositions(c) : ~TextAt(c, k).prohibited}}

MoreBuzzwords(c) ==
    {WithText(c, k, [TextAt(c, k) EXCEPT !.buzzword = TRUE]) :
        k \in {k \in TextPositions(c) : ~TextAt(c, k).buzzword}}

MoreMentions(c, positions) ==
    {WithText(c, k, [TextAt(c, k) EXCEPT !.product = TRUE]) :
        k \in {k \in positions : ~TextAt(c, k).product}}

\* the calls with one dash more in one text
MoreDashes(c) ==
    {WithText(c, k, [TextAt(c, k) EXCEPT !.dashes = @ + 1]) : k \in TextPositions(c)}

NoneHas(c, has(_)) == \A k \in TextPositions(c) : ~has(TextAt(c, k))

\* the texts of the post author's comments
OpPositions(c) ==
    {k \in DOMAIN c.commentList : c.commentList[k].authorPersona.id = c.postAuthorId}

TermsOf(c) ==
    riskTerms(c.commentList, c.postAuthorId, c.postBody, c.productName)

\* the score of d is above the score of c, or the score of c is clamped
RaisedOrClamped(c, d) ==
    RiskOf(d) > RiskOf(c) \/ TermsOf(c) >= 100 \/ TermsOf(c) < 0

InsertFailed == run # NULL /\ run' # NULL /\ run'.faults = run.faults + 1

\* C17: a failed insert of a post persists nothing, records no topic usage,
\* leaves postsGenerated, appends one error and ends the slot; a failed insert
\* of a comment appends one error, leaves commentsGenerated and the rows, and
\* the loop goes on with the next comment of the same thread.
C17_PersistenceFailures ==
    [][/\ (InsertFailed /\ pc = "insert_post") =>
             /\ posts' = posts
             /\ comments' = comments
             /\ topicMemory' = topicMemory
             /\ run'.postsGenerated = run.postsGenerated
             /\ Len(run'.errors) = Len(run.errors) + 1
             /\ pc' = "slot"
             /\ run'.i = run.i + 1
       /\ (InsertFailed /\ pc = "comments") =>
             /\ comments' = comments
             /\ run'.commentsGenerated = run.commentsGenerated
             /\ Len(run'.errors) = Len(run.errors) + 1
             /\ pc' = "comments"
             /\ run'.thread = run.thread
             /\ run'.j = run.j + 1]_vars

(***************************************************************************)
(* getCurrentWeekStart and getNextWeekStart.  A date is a number of ticks   *)
(* since 1970-01-01T00:00Z, TicksPerDay ticks a day.                       *)
(***************************************************************************)
TicksPerDay == 3

MaxDay == 24

\* 1970-01-01 was a Thursday (4); Sunday is 0
getUTCDay(date) == ((date \div TicksPerDay) + 4) % 7

\* date.setUTCDate(date.getUTCDate() + days)
addUTCDays(date, days) == date + days * TicksPerDay

\* date.setUTCHours(0, 0, 0, 0)
atMidnightUTC(date) == date - (date % TicksPerDay)

daysUntilMondayOfSevenDayWeek(day) == IF day = 0 THEN 1 ELSE 7 - day

daysUntilMonday(day) == IF day = 0 THEN 1 ELSE 8 - day

daysSinceMonday(day) == IF day = 0 THEN 6 ELSE day - 1

getNextWeekStart(fromDate) ==
    atMidnightUTC(addUTCDays(fromDate, daysUntilMonday(getUTCDay(fromDate))))

getCurrentWeekStart(fromDate) ==
    atMidnightUTC(addUTCDays(fromDate, 0 - daysSinceMonday(getUTCDay(fromDate))))

\* the dates from Monday 1970-01-05 on
InitWeek ==
    /\ RunIdle
    /\ result = PENDING
    /\ call \in [fn : {"getCurrentWeekStart", "getNextWeekStart"},
                 fromDate : (4 * TicksPerDay)..((MaxDay + 1) * TicksPerDay - 1)]

CallGetCurrentWeekStart ==
    /\ result = PENDING
    /\ call.fn = "getCurrentWeekStart"
    /\ result' = Returned(getCurrentWeekStart(call.fromDate))
    /\ UNCHANGED <<call, runVars>>

CallGetNextWeekStart ==
    /\ result = PENDING
    /\ call.fn = "getNextWeekStart"
    /\ result' = Returned(getNextWeekStart(call.fromDate))
    /\ UNCHANGED <<call, runVars>>

NextWeek ==
    \/ CallGetCurrentWeekStart
    \/ CallGetNextWeekStart

SpecWeek == InitWeek /\ [][NextWeek]_vars

IsMondayMidnight(date) == getUTCDay(date) = 1 /\ date % TicksPerDay = 0

\* C18: getCurrentWeekStart(d) is the Monday 00:00 UTC with start <= d <
\* start + 7 days (a Monday gives its own midnight, a Sunday the Monday 6 days
\* before); getNextWeekStart(d) is a Monday 00:00 UTC after d (a Monday gives
\* the Monday 7 days later) and equals getCurrentWeekStart(d) + 7 days.
C18_WeekStart ==
    LET d == call.fromDate
        week == 7 * TicksPerDay
    IN /\ (call.fn = "getCurrentWeekStart" /\ result.status = "returned") =>
             /\ IsMondayMidnight(result.value)
             /\ result.value <= d /\ d < result.value + week
             /\ getUTCDay(d) = 1 => result.value = atMidnightUTC(d)
             /\ getUTCDay(d) = 0 =>
                   result.value = atMidnightUTC(d) - 6 * TicksPerDay
       /\ (call.fn = "getNextWeekStart" /\ result.status = "returned") =>
             /\ IsMondayMidnight(result.value)
             /\ result.value > d
             /\ getUTCDay(d) = 1 => result.value = atMidnightUTC(d) + week
             /\ result.value = getCurrentWeekStart(d) + week

\* getNextWeekStart of a Monday after midnight
C18_Witness ==
    /\ call.fn = "getNextWeekStart"
    /\ result.status = "returned"
    /\ getUTCDay(call.fromDate) = 1
    /\ call.fromDate % TicksPerDay # 0

\* C19: the first comment of every non-empty list planCommentThread returns
\* is by a persona other than the post author, whatever plan the generator
\* returned.
C19_FirstCommentNotByAuthor ==
    (/\ call.fn = "planCommentThread"
     /\ result.status = "returned"
     /\ result.value # <<>>) =>
        result.value[1].authorPersona.id # call.postAuthor.id

\* username and replies_to of the items of a plan
Shape(plan) ==
    [k \in DOMAIN plan |->
        [username |-> plan[k].username, replies_to |-> plan[k].replies_to]]

\* C20: planThreadStructure returns the plan of the generator when the answer
\* is an array whose every item has a non-empty username, a defined
\* replies_to and a non-empty intent.  Otherwise it returns the fallback: no
\* comment without a non-author persona; else the first non-author on the
\* post, then the second non-author on comment 0 if at least 2 comments are
\* requested and there are 2 non-authors, then, if at least 3 are requested,
\* the post author on the comment just before.
C20_PlanOrFallback ==
    (call.fn = "planThreadStructure" /\ result.status = "returned") =>
        LET plan == result.llm.thread_plan
            accepted ==
                /\ result.llm.kind = "json"
                /\ result.llm.isArray
                /\ \A k \in DOMAIN plan :
                      /\ plan[k].username # ""
                      /\ plan[k].replies_to # UNDEFINED
                      /\ plan[k].intent # ""
            others == NonAuthors(call.availableCommenters, call.postAuthor)
            zero == <<[username |-> others[1].username, replies_to |-> POST]>>
            one == IF call.numComments >= 2 /\ Len(others) >= 2
                   THEN <<[username |-> others[2].username, replies_to |-> Index(0)]>>
                   ELSE <<>>
            last == IF call.numComments >= 3
                    THEN <<[username |-> call.postAuthor.username,
                            replies_to |-> Index(Len(zero \o one) - 1)]>>
                    ELSE <<>>
        IN IF accepted THEN result.value = plan
           ELSE IF others = <<>> THEN result.value = <<>>
           ELSE Shape(result.value) = zero \o one \o last

\* an answer with an empty intent, three comments requested, one non-author:
\* the fallback is the non-author on the post and the author on comment 0
C20_Witness ==
    /\ call.fn = "planThreadStructure"
    /\ result.status = "returned"
    /\ result.llm.kind = "json"
    /\ result.llm.isArray
    /\ \E k \in DOMAIN result.llm.thread_plan : result.llm.thread_plan[k].intent = ""
    /\ call.numComments >= 3
    /\ Len(NonAuthors(call.availableCommenters, call.postAuthor)) = 1
    /\ Len(result.value) = 2

\* C21: in every comment list planCommentThread returns, the first comment is
\* scheduled 15 to 45 minutes after the post and every later comment 5 to 25
\* minutes after the comment before it in the list, also when plan items of
\* unknown usernames were skipped.
C21_Schedule ==
    (call.fn = "planCommentThread" /\ result.status = "returned") =>
        \A j \in DOMAIN result.value :
            IF j = 1
            THEN result.value[1].scheduledAt - call.postScheduledAt
                    \in FirstDelay.min..FirstDelay.max
            ELSE result.value[j].scheduledAt - result.value[j - 1].scheduledAt
                    \in NextDelay.min..NextDelay.max

\* the fishing term as the specification words it: the post author asks a
\* question in a reply, names the product nowhere, and a comment of another
\* persona names the product
FishingCase(c) ==
    /\ c.productName # ""
    /\ \E k \in DOMAIN c.commentList :
          /\ c.commentList[k].authorPersona.id = c.postAuthorId
          /\ c.commentList[k].text.question
          /\ c.commentList[k].replyToIndex # NULL
    /\ \A k \in DOMAIN c.commentList :
          c.commentList[k].authorPersona.id = c.postAuthorId
              => ~c.commentList[k].text.product
    /\ \E k \in DOMAIN c.commentList :
          /\ c.commentList[k].authorPersona.id # c.postAuthorId
          /\ c.commentList[k].text.product

\* the terms of a call other than the fishing term
TermsButFishing(c) ==
    TermsOf(c) - (IF c.productName # ""
                  THEN fishingTerm(c.commentList, c.postAuthorId) ELSE 0)

\* C22: calculateRiskScore adds the fishing term 0.1 exactly when a product
\* name is given, a comment of the post author is a reply with a question
\* mark, no comment of the post author names the product and a comment of
\* another persona names it.
C22_FishingTerm ==
    (call.fn = "calculateRiskScore" /\ result.status = "returned") =>
        result.value =
            Clamp(TermsButFishing(call) + (IF FishingCase(call) THEN 10 ELSE 0))

(***************************************************************************)
(* The topic ledger.                                                       *)
(***************************************************************************)
\* the persisted posts on a topic key, in the order of their inserts
PostsOnTopic(key) == Filter(posts, {x \in Range(posts) : x.topic_key = key})

LedgerRows(key) == {k \in DOMAIN topicMemory : topicMemory[k].topic_key = key}

MaxLedger == 6

\* .limit(20) of the query of generateTopic
QueryLimit == 20

\* recentTopics.slice(0, 5) of the prompt of generateTopicWithLLM
PromptLimit == 5

\* .eq("campaign_id", campaignId)
ofCampaign(rows, campaignId) ==
    Filter(rows, {x \in Range(rows) : x.campaign_id = campaignId})

\* .order("last_used_at", { ascending: false })
orderByLastUsedAtDesc(rows) ==
    LET keyed == [k \in DOMAIN rows |->
                     [row |-> rows[k], score |-> rows[k].last_used_at]]
        sorted == SortDesc(keyed)
    IN [k \in DOMAIN rows |-> sorted[k].row]

\* lines 26-33 of generateTopic
recentTopics(rows, campaignId) ==
    LET topicMemory_ == Slice(orderByLastUsedAtDesc(ofCampaign(rows, campaignId)),
                              QueryLimit)
    IN [k \in DOMAIN topicMemory_ |-> topicMemory_[k].topic_key]

\* the topics to avoid in the prompt of generateTopicWithLLM
topicsToAvoid(recent) == Slice(recent, PromptLimit)

\* the rows in the order of their inserts; the times of last use go up or
\* down along the rows, starting at any row
LastUsedAt(n, first, up) ==
    [k \in 1..n |-> IF up THEN 1 + ((k - first) % n) ELSE 1 + ((first - k) % n)]

Ledgers ==
    UNION {{[k \in 1..n |->
                [topic_key |-> k, last_used_at |-> LastUsedAt(n, first, up)[k],
                 campaign_id |-> IF k = other THEN 2 ELSE 1]] :
               first \in 1..n, up \in BOOLEAN, other \in 0..n} : n \in 0..MaxLedger}

InitTopics ==
    /\ RunIdle
    /\ result = PENDING
    /\ \E rows \in Ledgers :
          call = [fn |-> "generateTopic", rows |-> rows, campaignId |-> 1]

CallGenerateTopic ==
    /\ result = PENDING
    /\ call.fn = "generateTopic"
    /\ result' = Returned(topicsToAvoid(recentTopics(call.rows, call.campaignId)))
    /\ UNCHANGED <<call, runVars>>

NextTopics == CallGenerateTopic

SpecTopics == InitTopics /\ [][NextTopics]_vars

\* C24: the list of topics to avoid that generateTopic hands to the
\* generator holds the min(20, number of ledger rows of the campaign) topic
\* keys of the campaign that were used last, latest first.
C24_AvoidList ==
    (call.fn = "generateTopic" /\ result.status = "returned") =>
        LET own == {k \in DOMAIN call.rows :
                       call.rows[k].campaign_id = call.campaignId}
            avoid == result.value
        IN /\ Len(avoid) = Min(20, Cardinality(own))
           /\ \A j \in DOMAIN avoid :
                 \E k \in own :
                    /\ call.rows[k].topic_key = avoid[j]
                    /\ Cardinality({h \in own : call.rows[h].last_used_at
                                                   > call.rows[k].last_used_at}) = j - 1

(***************************************************************************)
(* The progress events of a run.                                           *)
(***************************************************************************)
ProgressSteps ==
    <<"plan_created", "generating_topic", "generating_post",
      "generating_comments", "post_complete">>

\* the place of a step in the order of the steps
StepRank(step) == CHOOSE k \in DOMAIN ProgressSteps : ProgressSteps[k] = step

\* the events a step of the run has added
NewEvents == SubSeq(run'.events, Len(run.events) + 1, Len(run'.events))

\* the step leaves the comment loop of a slot: its post was persisted and
\* every comment of its thread was tried
CommentLoopEnds == pc = "comments" /\ run.j > Len(run.thread) /\ run.post # 0

\* C25: every progress event has one of the five steps; the plan_created
\* events come before every event of a slot; within a slot the steps come in
\* the order generating_topic, generating_post, generating_comments,
\* post_complete; postIndex never decreases; and post_complete is emitted for
\* a slot exactly when its post was persisted and its comment loop finished,
\* before any event of the next slot.
C25_ProgressEvents ==
    /\ [](run # NULL =>
            /\ \A k \in DOMAIN run.events :
                  /\ run.events[k].step \in Range(ProgressSteps)
                  /\ run.events[k].step = "plan_created" <=> run.events[k].postIndex = 0
            /\ \A j, k \in DOMAIN run.events :
                  j < k =>
                     /\ run.events[j].postIndex <= run.events[k].postIndex
                     /\ run.events[j].postIndex = run.events[k].postIndex =>
                           StepRank(run.events[j].step) <= StepRank(run.events[k].step))
    /\ [][(run # NULL /\ run' # NULL /\ pc \notin {"idle", "done"}) =>
             /\ SubSeq(run'.events, 1, Len(run.events)) = run.events
             /\ (\E k \in DOMAIN NewEvents : NewEvents[k].step = "post_complete")
                   <=> CommentLoopEnds
             /\ \A k \in DOMAIN NewEvents :
                   NewEvents[k].step = "post_complete" =>
                      /\ NewEvents[k].postIndex = run.i
                      /\ k = Len(NewEvents)]_vars

\* C26: the progress sink cannot influence the run.  A run whose callback
\* is absent or succeeds records no error of a raised exception, is not
\* aborted once validation has passed, leaves every persisted post with its
\* thread planned and ends with the plan ready; the same holds of a run whose
\* callback raises, whose rows, counts, errors and plan status are the same.
C26_SinkCannotInfluence ==
    (run # NULL /\ run.validated) =>
        /\ \A k \in DOMAIN run.errors : run.errors[k].kind # "exception"
        /\ run.outcome # "thrown"
        /\ pc = "done" =>
              /\ planStatus = "ready"
              /\ \A k \in DOMAIN posts : posts[k].scored

\* the persisted comments of a persona that are scheduled in the week of the
\* run; a comment is scheduled within two hours of its post
CommentsThisWeek(id) ==
    Cardinality({k \in DOMAIN comments :
                    /\ comments[k].author_persona_id = id
                    /\ posts[comments[k].planned_post_id].week = "this"})

\* C27: when selectCommenters is called in a run, the comment count it
\* compares with the cap of 10 is, for every persona, the number of the
\* persona's comments scheduled in the week of the run, those the run itself
\* has created for earlier slots included.
C27_CommentCount ==
    (pc = "thread" /\ run # NULL) =>
        \A id \in PersonaIds :
            UsageOf(calculatePersonaUsage(run.personas, run.existingPosts,
                                          run.existingComments), id).commentsThisWeek
                = CommentsThisWeek(id)

\* the terms of the table of the quality scorer, in hundredths
TableTerms(c, author) ==
    LET ids == {c[k].authorPersona.id : k \in DOMAIN c}
        times(id) == Cardinality({k \in DOMAIN c : c[k].authorPersona.id = id})
        gapsGood == \A k \in 2..Len(c) :
                       /\ c[k].scheduledAt - c[k - 1].scheduledAt >= 3
                       /\ c[k].scheduledAt - c[k - 1].scheduledAt <= 120
    IN (IF Cardinality(ids) \in 2..4 THEN 10 ELSE 0)
       + (IF c # <<>> /\ c[1].authorPersona.id # author THEN 10 ELSE 0)
       + (IF /\ \E k \in DOMAIN c : c[k].replyToIndex = NULL
             /\ \E k \in DOMAIN c : c[k].replyToIndex # NULL THEN 15 ELSE 0)
       + (IF \E k \in DOMAIN c : c[k].replyToIndex # NULL /\ c[k].replyToIndex.index > 0
          THEN 10 ELSE 0)
       + (IF author \in ids THEN 10 ELSE 0)
       + (IF gapsGood THEN 5 ELSE 0)
       - 10 * Cardinality({id \in ids : id # author /\ times(id) > 1})
       - 15 * Cardinality({id \in ids : times(id) > 2})

\* the same thread with every text replaced by one text
WithPlainText(c) == [k \in DOMAIN c |-> [c[k] EXCEPT !.text = PlainText]]

\* C28: calculateThreadQuality is the clamp to [0, 1] of 0.5 plus the terms
\* of the table, in either copy of the file, and two threads that differ in
\* the texts of their comments only have the same quality.
C28_QualityTable ==
    (call.fn = "calculateThreadQuality" /\ result.status = "returned") =>
        /\ result.value = Max(0, Min(100, 50 + TableTerms(call.commentList,
                                                          call.postAuthorId)))
        /\ result.value = calculateThreadQuality(WithPlainText(call.commentList),
                                                 call.postAuthorId, call.build)

(***************************************************************************)
(* The reply links of the persisted comments.                              *)
(***************************************************************************)
\* the step persists a comment
CommentInserted == Len(comments') = Len(comments) + 1

\* C30: every persisted comment has no parent id or the id of a comment of
\* the same post that was inserted earlier, whatever thread the planner
\* returned.  A reply whose target index is its own or a later one, or the
\* index of a comment whose insert failed, is persisted without a parent id.
C30_ReplyLinks ==
    /\ [](\A k \in DOMAIN comments :
            \/ comments[k].reply_to_comment_id = 0
            \/ \E h \in 1..(k - 1) :
                  /\ comments[h].id = comments[k].reply_to_comment_id
                  /\ comments[h].planned_post_id = comments[k].planned_post_id)
    /\ [][CommentInserted =>
             LET row == comments'[Len(comments')]
                 target == run.thread[run.j].replyToIndex
             IN (target # NULL
                 /\ (target.index >= run.j - 1
                     \/ target.index \notin DOMAIN run.commentIdMap))
                    => row.reply_to_comment_id = 0]_vars

\* a reply is persisted with the id of its parent, after a comment whose
\* planned target was a later comment was persisted without a parent id
C30_Witness ==
    /\ pc = "comments"
    /\ run.j = 3
    /\ Len(comments) >= 2
    /\ run.thread[1].replyToIndex # NULL
    /\ run.thread[1].replyToIndex.index >= 1
    /\ comments[Len(comments) - 1].reply_to_comment_id = 0
    /\ comments[Len(comments)].reply_to_comment_id = comments[Len(comments) - 1].id

(***************************************************************************)
(* SpecRace: a second request to the generation-stream endpoint for the    *)
(* same plan, served while the first one runs.  Its consumer reads to the  *)
(* end, its generators answer with their fallbacks and its inserts         *)
(* succeed; of its rows the posts and the topic ledger are followed, its   *)
(* comments are left out.                                                  *)
(***************************************************************************)
\* route.ts 25-43: the plan is read and its status is tested
RivalRequest ==
    /\ rival.pc = "idle"
    /\ planStatus # "none"
    /\ rival' = [rival EXCEPT !.pc = IF planStatus # "generating"
                                     THEN "rejected" ELSE "load"]
    /\ UNCHANGED <<fnVars, campaign, planStatus, posts, comments, topicMemory,
                   connected, pc, run>>

\* index.ts 312-395 and, for a campaign that fails validation, route.ts 74-81
RivalLoad ==
    /\ rival.pc = "load"
    /\ LET personas == Active(campaign.personas)
           subreddits == Active(campaign.subreddits)
       IN IF personas = <<>> \/ subreddits = <<>>
          THEN /\ rival' = [rival EXCEPT !.pc = "done"]
               /\ planStatus' = "failed"
          ELSE /\ rival' = [rival EXCEPT
                              !.pc = "slot",
                              !.existingPosts = ThisWeek(posts),
                              !.existingComments = comments,
                              !.selections =
                                  selectSubredditsForWeek(
                                      subreddits, ThisWeek(posts),
                                      [k \in 1..campaign.posts_per_week |->
                                          [name \in SubredditNames |-> 0]])]
               /\ UNCHANGED planStatus
    /\ UNCHANGED <<fnVars, campaign, posts, comments, topicMemory, connected, pc, run>>

\* index.ts 397-531: one slot of the loop, up to recordTopicUsage
RivalSlot ==
    /\ rival.pc = "slot"
    /\ rival.i <= Len(rival.selections)
    /\ LET subreddit == rival.selections[rival.i].subreddit
           authorSelection ==
               selectPostAuthor(Active(campaign.personas), subreddit,
                                rival.existingPosts, rival.existingComments,
                                [id \in PersonaIds |-> 0])
           id == Len(posts) + 1
           key == [name |-> "topic", at |-> 0]
       IN IF authorSelection = NULL
          THEN UNCHANGED <<posts, topicMemory>>
          ELSE /\ posts' = Append(posts,
                      [id |-> id, plan |-> "new",
                       author_persona_id |-> authorSelection.persona.id,
                       subreddit_name |-> subreddit.name, topic_key |-> key,
                       week |-> "this",
                       day |-> dayOffset(rival.i, Len(rival.selections)),
                       scored |-> FALSE])
               /\ topicMemory' = recordTopicUsage(topicMemory, key, subreddit.name, id)
    /\ rival' = [rival EXCEPT !.i = @ + 1]
    /\ UNCHANGED <<fnVars, campaign, planStatus, comments, connected, pc, run>>

\* index.ts 654-664
RivalFinish ==
    /\ rival.pc = "slot"
    /\ rival.i > Len(rival.selections)
    /\ planStatus' = "ready"
    /\ rival' = [rival EXCEPT !.pc = "done"]
    /\ UNCHANGED <<fnVars, campaign, posts, comments, topicMemory, connected, pc, run>>

NextRace ==
    \/ Next
    \/ RivalRequest
    \/ RivalLoad
    \/ RivalSlot
    \/ RivalFinish

\* the campaigns with active forums and keywords, without earlier rows
InitRace ==
    /\ call = NULL
    /\ result = NULL
    /\ campaign \in {c \in Campaigns :
                        c.subreddits[1].is_active /\ c.keywords[1].is_active}
    /\ planStatus \in {"none", "generating"}
    /\ posts = <<>>
    /\ topicMemory = <<>>
    /\ comments = <<>>
    /\ connected = TRUE
    /\ pc = "idle"
    /\ run = NULL
    /\ rival = NoRival

SpecRace == InitRace /\ [][NextRace]_vars

\* a run of the plan has started and has not ended
RunInProgress == pc \in AwaitPoints \cup {"slot", "caught"}

RivalInProgress == rival.pc \in {"load", "slot"}

\* C29: at most one generation run is in progress for a plan: a request for
\* a plan whose run has started and not ended is not accepted, and the plan
\* never has more posts than the campaign's posts_per_week.
C29_OneRunPerPlan ==
    /\ [][/\ (rival.pc = "idle" /\ rival'.pc = "load") => ~RunInProgress
          /\ (pc # "load" /\ pc' = "load") => ~RivalInProgress]_vars
    /\ [](campaign # NULL => Len(NewPosts) <= campaign.posts_per_week)

=============================================================================
